---- MODULE Spec2Model ----
(***************************************************************************)
(* Model of src/api/app.py: the RSI indicator (compute_rsi,                *)
(* compute_rsi_window) and the trading simulation (run_strategy).          *)
(*                                                                         *)
(* Python floats are modelled as binary floating-point numbers <<m, e>>    *)
(* (value m * 2^e, m odd or <<0, 0>>) whose every operation rounds the     *)
(* exact result to FloatBits significant bits, ties to even, as IEEE-754   *)
(* does with 53 bits.  Exponents are unbounded (no overflow, no            *)
(* subnormals).                                                            *)
(***************************************************************************)
EXTENDS Integers, Sequences, FiniteSets, TLC

\* ------------------------------------------------------------- bounds
\* significand width of the modelled floats (IEEE double: 53)
FloatBits == 12
\* length N of every price series of a simulation
NumDays == 5
\* compute_rsi_window checks: longest series
MaxLen == 3
\* compute_rsi checks: longest slice, largest price
MaxSlice == 4
MaxOscPrice == 4

\* ------------------------------------------------- program constants
InitialBalance == 100000
LowThreshold == 33
HighThreshold == 66
RsiMax == 100

\* ---------------------------------------------------- float arithmetic
RECURSIVE Pow2Rec(_)
Pow2Rec(k) == IF k <= 0 THEN 1 ELSE 2 * Pow2Rec(k - 1)

Pow2Table == [k \in 0..30 |-> Pow2Rec(k)]

Pow2(k) == IF k <= 0 THEN 1 ELSE Pow2Table[k]

\* the number of bits of n: 2^(BitLen(n) - 1) <= n < 2^BitLen(n)
RECURSIVE BitLenFrom(_, _)
BitLenFrom(n, b) == IF b = 30 \/ n < Pow2Table[b] THEN b ELSE BitLenFrom(n, b + 1)

BitLen(n) ==
    IF n <= 0 THEN 0
    ELSE IF n >= Pow2Table[FloatBits] THEN BitLenFrom(n, FloatBits + 1)
    ELSE BitLenFrom(n, 1)

Abs(n) == IF n < 0 THEN -n ELSE n

RECURSIVE Canon(_, _)
Canon(m, e) ==
    IF m = 0 THEN <<0, 0>>
    ELSE IF m % 2 = 0 THEN Canon(m \div 2, e + 1)
    ELSE <<m, e>>

\* sign * (n + frac) * 2^e, frac in [0,1) and frac > 0 iff sticky, rounded to
\* FloatBits significant bits, ties to even
Round(sign, n, e, sticky) ==
    LET bl == BitLen(n) IN
    IF bl <= FloatBits THEN Canon(sign * n, e)
    ELSE LET s    == bl - FloatBits
             q    == n \div Pow2(s)
             rem  == n % Pow2(s)
             half == Pow2(s - 1)
             up   == \/ rem > half
                     \/ rem = half /\ (sticky \/ q % 2 = 1)
         IN  Canon(sign * (IF up THEN q + 1 ELSE q), e + s)

Sgn(n) == IF n < 0 THEN -1 ELSE 1

Min(a, b) == IF a <= b THEN a ELSE b

\* float(i) for an integer literal or an integer-valued price
FromInt(i) == Round(Sgn(i), Abs(i), 0, FALSE)

\* exact a - b as an integer multiple of 2^Min(a[2], b[2])
Diff(a, b) ==
    LET e == Min(a[2], b[2]) IN
    a[1] * Pow2(a[2] - e) - b[1] * Pow2(b[2] - e)

FNeg(a) == <<-a[1], a[2]>>

FAdd(a, b) ==
    IF a[1] = 0 THEN b
    ELSE IF b[1] = 0 THEN a
    ELSE LET e == Min(a[2], b[2])
             n == a[1] * Pow2(a[2] - e) + b[1] * Pow2(b[2] - e)
         IN  Round(Sgn(n), Abs(n), e, FALSE)

FSub(a, b) == FAdd(a, FNeg(b))

FMul(a, b) ==
    LET n == a[1] * b[1] IN Round(Sgn(n), Abs(n), a[2] + b[2], FALSE)

\* b # 0 (a zero divisor raises ZeroDivisionError in the program)
FDiv(a, b) ==
    IF a[1] = 0 THEN <<0, 0>>
    ELSE LET ma  == Abs(a[1])
             mb  == Abs(b[1])
             k0  == FloatBits + 2 + BitLen(mb) - BitLen(ma)
             k   == IF k0 < 0 THEN 0 ELSE k0
             num == ma * Pow2(k)
         IN  Round(Sgn(a[1]) * Sgn(b[1]), num \div mb, a[2] - b[2] - k,
                   num % mb # 0)

FAbs(a) == <<Abs(a[1]), a[2]>>

FLt(a, b) == Diff(a, b) < 0
FGt(a, b) == Diff(a, b) > 0
FGe(a, b) == Diff(a, b) >= 0

Zero == <<0, 0>>
One == <<1, 0>>

None == <<>>

VARIABLES
    dataset,          \* tick -> price series (0-based day d is dataset[tick][d + 1])
    tickers,          \* the ordered list of instruments
    window_size, tx_fee, interest_rate, weight_per_stock,
    balance, cRor, positions, entry_price, volume,
    rsi_data,         \* tick -> indicator series, None before it is computed
    t, ti,            \* simulated day, position in tickers of the current tick
    pc,               \* the statement run_strategy executes next
    result,           \* the returned (balance, final_return), None before return
    events,           \* history: the <<day, tick, transition>> fired so far
    rors,             \* history: rate_of_return of every close so far
    start_pos,        \* history: positions[tick] when its evaluation began
    evals,            \* history: the <<day, tick>> evaluations begun so far
    close_array,      \* argument of a direct compute_rsi call
    rsi_value,        \* its result, None before the call
    other             \* the frame of a second, suspended call of run_strategy:
                      \* its arguments, locals and history; None if there is none

vars == <<dataset, tickers, window_size, tx_fee, interest_rate,
          weight_per_stock, balance, cRor, positions, entry_price, volume,
          rsi_data, t, ti, pc, result, events, rors, start_pos, evals,
          close_array, rsi_value, other>>

\* ------------------------------------------------------ compute_rsi
\* the loop of lines 25-30 from 1-based position i on: <<up, down>>
\* mutant: every difference is added to up, down stays 0
RECURSIVE RsiSums_UpOnly(_, _, _, _)
RsiSums_UpOnly(c, i, up, down) ==
    IF i > Len(c) THEN <<up, down>>
    ELSE RsiSums_UpOnly(c, i + 1, FAdd(up, FSub(c[i], c[i - 1])), down)

RECURSIVE RsiSums(_, _, _, _)
RsiSums(c, i, up, down) ==
    IF i > Len(c) THEN <<up, down>>
    ELSE LET diff == FSub(c[i], c[i - 1]) IN
         IF FGe(diff, Zero)
         THEN RsiSums(c, i + 1, FAdd(up, diff), down)
         ELSE RsiSums(c, i + 1, up, FAdd(down, FAbs(diff)))

\* mutant: the operands of the subtraction exchanged
RsiFormula_Reversed(up, down) ==
    FSub(FDiv(FromInt(RsiMax), FAdd(One, FDiv(up, down))), FromInt(RsiMax))

RsiFormula(up, down) ==
    FSub(FromInt(RsiMax),
         FDiv(FromInt(RsiMax), FAdd(One, FDiv(up, down))))

\* mutant: no losses reads as no strength
compute_rsi_ZeroWhenFlat(c) ==
    LET s == RsiSums(c, 2, Zero, Zero) IN
    IF s[2] = Zero THEN Zero
    ELSE RsiFormula(s[1], s[2])

compute_rsi(c) ==
    LET s == RsiSums(c, 2, Zero, Zero) IN
    IF s[2] = Zero THEN FromInt(RsiMax)
    ELSE RsiFormula(s[1], s[2])

\* ----------------------------------------------- compute_rsi_window
\* Python's seq[lo:hi]: negative indices count from the end, both are clamped
PyIndex(i, n) ==
    LET j == IF i < 0 THEN i + n ELSE i IN
    IF j < 0 THEN 0 ELSE IF j > n THEN n ELSE j

PySlice(s, lo, hi) ==
    LET a == PyIndex(lo, Len(s))
        b == PyIndex(hi, Len(s))
    IN  IF a >= b THEN <<>> ELSE SubSeq(s, a + 1, b)

\* range(window, n + 1), first index and one past the last
WindowRangeLo(window, n) == window
\* mutant: range(window, n), the last window left out
WindowRangeHi_Exclusive(window, n) == n
WindowRangeHi(window, n) == n + 1

\* the inner loop of lines 41-44 from i on, acc the values appended so far
RECURSIVE RsiWindowLoop(_, _, _, _, _)
RsiWindowLoop(series, window, i, hi, acc) ==
    IF i >= hi THEN acc
    ELSE RsiWindowLoop(series, window, i + 1, hi,
             Append(acc, compute_rsi(PySlice(series, i - window, i))))

compute_rsi_window(data, ticks, window) ==
    [tick \in {ticks[j] : j \in 1..Len(ticks)} |->
        LET n == Len(data[tick]) IN
        RsiWindowLoop(data[tick], window, WindowRangeLo(window, n),
                      WindowRangeHi(window, n), <<>>)]

\* ---------------------------------------------------- run_strategy
TickerSet == {tickers[j] : j \in 1..Len(tickers)}
tick == tickers[ti]
n == Len(dataset[tickers[1]])
\* mutant: the window that ends with the price of day t
rsi_index_Lookahead == t - window_size + 1
rsi_index == t - window_size
the_rsi == rsi_data[tick][rsi_index + 1]
current_price == dataset[tick][t + 1]

\* mutant: the position is sized from the magnitude of the balance
EntryVolume_Abs(bal, weight, price) == FDiv(FMul(FAbs(bal), weight), price)

\* mutant: the position is sized from the fixed starting balance
EntryVolume_FromStart(bal, weight, price) ==
    FDiv(FMul(FromInt(InitialBalance), weight), price)

\* volume[tick] = (balance * weight_per_stock) / current_price
EntryVolume(bal, weight, price) == FDiv(FMul(bal, weight), price)

\* lines 75-78
CloseShortBalance(bal, entry, vol, price, fee, rate) ==
    FSub(FSub(FAdd(bal, FMul(FMul(entry, FSub(One, fee)), vol)),
              FMul(FMul(price, FAdd(One, fee)), vol)),
         FMul(FMul(rate, entry), vol))

\* line 79
CloseShortRor(entry, price, fee, rate) ==
    FSub(FSub(FDiv(FMul(entry, FSub(One, fee)), FMul(price, FAdd(One, fee))),
              One),
         rate)

\* lines 91-93
CloseLongBalance(bal, entry, vol, price, fee) ==
    FSub(FAdd(bal, FMul(FMul(price, vol), FSub(One, fee))),
         FMul(FMul(entry, vol), FAdd(One, fee)))

\* mutant: the price ratio itself is taken as the return
CloseLongRor_Ratio(entry, price, fee) ==
    FDiv(FMul(price, FSub(One, fee)), FMul(entry, FAdd(One, fee)))

\* line 94
CloseLongRor(entry, price, fee) ==
    FSub(FDiv(FMul(price, FSub(One, fee)), FMul(entry, FAdd(One, fee))), One)

\* mutant: returns are added, not compounded
Compound_Additive(c, ror) == FAdd(c, ror)

\* cRor *= (1 + rate_of_return)
Compound(c, ror) == FMul(c, FAdd(One, ror))

CloseShortCond == FLt(the_rsi, FromInt(LowThreshold)) /\ positions[tick] = "short"
EnterShortCond == FGt(the_rsi, FromInt(HighThreshold)) /\ positions[tick] = "neutral"
\* mutant: the long is closed below the low threshold
CloseLongCond_Low ==
    FLt(the_rsi, FromInt(LowThreshold)) /\ positions[tick] = "long"
CloseLongCond == FGt(the_rsi, FromInt(HighThreshold)) /\ positions[tick] = "long"
\* mutant: the four branches chained with elif, a close ends the evaluation
EnterLongCond_Elif ==
    /\ FLt(the_rsi, FromInt(LowThreshold))
    /\ positions[tick] = "neutral"
    /\ start_pos = "neutral"
EnterLongCond == FLt(the_rsi, FromInt(LowThreshold)) /\ positions[tick] = "neutral"

\* lines 74 and 90: the state a close leaves the instrument in
\* mutant: a misspelt state name
ClosedPosition_Typo == "nuetral"
ClosedPosition == "neutral"

Log(name) == Append(events, <<t, tick, name>>)

\* a statement of run_strategy assigns neither to an argument nor to a name
\* of another call's frame
InputsUnchanged ==
    UNCHANGED <<dataset, tickers, window_size, tx_fee, interest_rate,
                weight_per_stock, close_array, rsi_value, other>>

\* lines 55-59: the state run_strategy starts from
StartBalance == FromInt(InitialBalance)
StartCRor == One
StartPosition == "neutral"

RunStart ==
    /\ balance = StartBalance
    /\ cRor = StartCRor
    /\ positions = [k \in TickerSet |-> StartPosition]
    /\ entry_price = [k \in TickerSet |-> None]
    /\ volume = [k \in TickerSet |-> Zero]
    /\ rsi_data = None
    /\ t = 0 /\ ti = 1
    /\ pc = "precompute"
    /\ result = None
    /\ events = <<>>
    /\ rors = <<>>
    /\ start_pos = StartPosition
    /\ evals = <<>>

\* lines 62-66: rsi_data, n, and the first iteration of the loops, if any
Precompute ==
    /\ pc = "precompute"
    /\ rsi_data' = compute_rsi_window(dataset, tickers, window_size)
    /\ t' = window_size
    /\ ti' = 1
    /\ pc' = IF window_size < n THEN "close_short" ELSE "return"
    /\ start_pos' = positions[tickers[1]]
    /\ InputsUnchanged
    /\ UNCHANGED <<balance, cRor, positions, entry_price, volume, result,
                   events, rors, evals>>

\* lines 69-70 index two lists; t >= window_size >= 0 in every run, so no
\* index is negative and an index is valid iff it is below the length
ReadOk ==
    /\ rsi_index < Len(rsi_data[tick])
    /\ t < Len(dataset[tick])

\* lines 68-70, then lines 73-80.  An exception ends run_strategy where it is
\* raised: the statements before it have acted, nothing is returned.
CloseShort ==
    /\ pc = "close_short"
    /\ evals' = Append(evals, <<t, tick>>)
    /\ IF ~ReadOk
       THEN /\ pc' = "IndexError"
            /\ UNCHANGED <<positions, balance, cRor, rors, events>>
       ELSE IF ~CloseShortCond
       THEN /\ pc' = "enter_short"
            /\ UNCHANGED <<positions, balance, cRor, rors, events>>
       ELSE IF FMul(current_price, FAdd(One, tx_fee)) = Zero
       THEN /\ pc' = "ZeroDivisionError"
            /\ positions' = [positions EXCEPT ![tick] = ClosedPosition]
            /\ balance' = CloseShortBalance(balance, entry_price[tick],
                              volume[tick], current_price, tx_fee, interest_rate)
            /\ UNCHANGED <<cRor, rors, events>>
       ELSE /\ pc' = "enter_short"
            /\ positions' = [positions EXCEPT ![tick] = ClosedPosition]
            /\ balance' = CloseShortBalance(balance, entry_price[tick],
                              volume[tick], current_price, tx_fee, interest_rate)
            /\ cRor' = Compound(cRor, CloseShortRor(entry_price[tick],
                              current_price, tx_fee, interest_rate))
            /\ rors' = Append(rors, CloseShortRor(entry_price[tick],
                              current_price, tx_fee, interest_rate))
            /\ events' = Log("close_short")
    /\ InputsUnchanged
    /\ UNCHANGED <<entry_price, volume, rsi_data, t, ti, result, start_pos>>

\* mutant: the entry debits the notional from the balance
EnterShort_Debit ==
    /\ pc = "enter_short"
    /\ pc' = "close_long"
    /\ IF EnterShortCond
       THEN /\ positions' = [positions EXCEPT ![tick] = "short"]
            /\ entry_price' = [entry_price EXCEPT ![tick] = current_price]
            /\ volume' = [volume EXCEPT ![tick] =
                              EntryVolume(balance, weight_per_stock, current_price)]
            /\ balance' = FSub(balance, FMul(balance, weight_per_stock))
            /\ events' = Log("open_short")
       ELSE UNCHANGED <<positions, entry_price, volume, events, balance>>
    /\ InputsUnchanged
    /\ UNCHANGED <<cRor, rors, rsi_data, t, ti, result, start_pos, evals>>

\* lines 83-86
EnterShort ==
    /\ pc = "enter_short"
    /\ IF ~EnterShortCond
       THEN /\ pc' = "close_long"
            /\ UNCHANGED <<positions, entry_price, volume, events>>
       ELSE IF current_price = Zero
       THEN /\ pc' = "ZeroDivisionError"
            /\ positions' = [positions EXCEPT ![tick] = "short"]
            /\ entry_price' = [entry_price EXCEPT ![tick] = current_price]
            /\ UNCHANGED <<volume, events>>
       ELSE /\ pc' = "close_long"
            /\ positions' = [positions EXCEPT ![tick] = "short"]
            /\ entry_price' = [entry_price EXCEPT ![tick] = current_price]
            /\ volume' = [volume EXCEPT ![tick] =
                              EntryVolume(balance, weight_per_stock, current_price)]
            /\ events' = Log("open_short")
    /\ InputsUnchanged
    /\ UNCHANGED <<balance, cRor, rors, rsi_data, t, ti, result, start_pos,
                   evals>>

\* mutant: the close of a long clears the entry price and the volume
CloseLong_ClearsEntry ==
    /\ pc = "close_long"
    /\ pc' = "enter_long"
    /\ IF ~CloseLongCond
       THEN UNCHANGED <<positions, balance, cRor, rors, events, entry_price,
                        volume>>
       ELSE /\ positions' = [positions EXCEPT ![tick] = ClosedPosition]
            /\ balance' = CloseLongBalance(balance, entry_price[tick],
                              volume[tick], current_price, tx_fee)
            /\ cRor' = Compound(cRor, CloseLongRor(entry_price[tick],
                              current_price, tx_fee))
            /\ rors' = Append(rors, CloseLongRor(entry_price[tick],
                              current_price, tx_fee))
            /\ events' = Log("close_long")
            /\ entry_price' = [entry_price EXCEPT ![tick] = None]
            /\ volume' = [volume EXCEPT ![tick] = Zero]
    /\ InputsUnchanged
    /\ UNCHANGED <<rsi_data, t, ti, result, start_pos, evals>>

\* mutant: the test of line 83 is made again after a long is closed
CloseLong_Retest ==
    /\ pc = "close_long"
    /\ IF ~CloseLongCond
       THEN /\ pc' = "enter_long"
            /\ UNCHANGED <<positions, balance, cRor, rors, events>>
       ELSE /\ pc' = "enter_short"
            /\ positions' = [positions EXCEPT ![tick] = ClosedPosition]
            /\ balance' = CloseLongBalance(balance, entry_price[tick],
                              volume[tick], current_price, tx_fee)
            /\ cRor' = Compound(cRor, CloseLongRor(entry_price[tick],
                              current_price, tx_fee))
            /\ rors' = Append(rors, CloseLongRor(entry_price[tick],
                              current_price, tx_fee))
            /\ events' = Log("close_long")
    /\ InputsUnchanged
    /\ UNCHANGED <<entry_price, volume, rsi_data, t, ti, result, start_pos,
                   evals>>

\* lines 89-95
CloseLong ==
    /\ pc = "close_long"
    /\ IF ~CloseLongCond
       THEN /\ pc' = "enter_long"
            /\ UNCHANGED <<positions, balance, cRor, rors, events>>
       ELSE IF FMul(entry_price[tick], FAdd(One, tx_fee)) = Zero
       THEN /\ pc' = "ZeroDivisionError"
            /\ positions' = [positions EXCEPT ![tick] = ClosedPosition]
            /\ balance' = CloseLongBalance(balance, entry_price[tick],
                              volume[tick], current_price, tx_fee)
            /\ UNCHANGED <<cRor, rors, events>>
       ELSE /\ pc' = "enter_long"
            /\ positions' = [positions EXCEPT ![tick] = ClosedPosition]
            /\ balance' = CloseLongBalance(balance, entry_price[tick],
                              volume[tick], current_price, tx_fee)
            /\ cRor' = Compound(cRor, CloseLongRor(entry_price[tick],
                              current_price, tx_fee))
            /\ rors' = Append(rors, CloseLongRor(entry_price[tick],
                              current_price, tx_fee))
            /\ events' = Log("close_long")
    /\ InputsUnchanged
    /\ UNCHANGED <<entry_price, volume, rsi_data, t, ti, result, start_pos,
                   evals>>

\* mutant: the loops nested the other way, all days of an instrument first
NextIteration_TickerFirst ==
    IF t + 1 < n
    THEN /\ ti' = ti /\ t' = t + 1 /\ pc' = "close_short"
         /\ start_pos' = positions'[tickers[ti]]
    ELSE IF ti < Len(tickers)
    THEN /\ ti' = ti + 1 /\ t' = window_size /\ pc' = "close_short"
         /\ start_pos' = positions[tickers[ti + 1]]
    ELSE /\ ti' = ti /\ t' = t /\ pc' = "return"
         /\ start_pos' = start_pos

\* the next iteration of lines 66-67, or the end of the loops
NextIteration ==
    IF ti < Len(tickers)
    THEN /\ ti' = ti + 1 /\ t' = t /\ pc' = "close_short"
         /\ start_pos' = positions[tickers[ti + 1]]
    ELSE IF t + 1 < n
    THEN /\ ti' = 1 /\ t' = t + 1 /\ pc' = "close_short"
         /\ start_pos' = positions'[tickers[1]]
    ELSE /\ ti' = ti /\ t' = t /\ pc' = "return"
         /\ start_pos' = start_pos

\* lines 98-101, then the next iteration of lines 66-67
EnterLong ==
    /\ pc = "enter_long"
    /\ IF ~EnterLongCond
       THEN /\ UNCHANGED <<positions, entry_price, volume, events>>
            /\ NextIteration
       ELSE IF current_price = Zero
       THEN /\ pc' = "ZeroDivisionError"
            /\ positions' = [positions EXCEPT ![tick] = "long"]
            /\ entry_price' = [entry_price EXCEPT ![tick] = current_price]
            /\ UNCHANGED <<volume, events, t, ti, start_pos>>
       ELSE /\ positions' = [positions EXCEPT ![tick] = "long"]
            /\ entry_price' = [entry_price EXCEPT ![tick] = current_price]
            /\ volume' = [volume EXCEPT ![tick] =
                              EntryVolume(balance, weight_per_stock, current_price)]
            /\ events' = Log("open_long")
            /\ NextIteration
    /\ InputsUnchanged
    /\ UNCHANGED <<balance, cRor, rors, rsi_data, result, evals>>

\* lines 103-104
FinalReturn(c) == FSub(c, One)

Return ==
    /\ pc = "return"
    /\ pc' = "done"
    /\ result' = <<balance, FinalReturn(cRor)>>
    /\ InputsUnchanged
    /\ UNCHANGED <<balance, cRor, positions, entry_price, volume, rsi_data,
                   t, ti, events, rors, start_pos, evals>>

\* the inputs of the simulations checked
F(num, den) == FDiv(FromInt(num), FromInt(den))
Prices == {FromInt(1), FromInt(2)}
\* <<tx_fee, interest_rate>>
Costs == {<<Zero, Zero>>, <<F(1, 4), F(1, 8)>>}
Weights == {F(1, 2), One}
Windows == {2, 3}
RunTickers == <<"VTI", "QQQ">>

RECURSIVE SeqsOfLen(_, _)
SeqsOfLen(S, len) ==
    IF len = 0 THEN {<<>>}
    ELSE {Append(s, x) : s \in SeqsOfLen(S, len - 1), x \in S}

Init ==
    /\ tickers = RunTickers
    /\ dataset \in [TickerSet -> SeqsOfLen(Prices, NumDays)]
    /\ window_size \in Windows
    /\ \E c \in Costs : tx_fee = c[1] /\ interest_rate = c[2]
    /\ weight_per_stock \in Weights
    /\ close_array = None
    /\ rsi_value = None
    /\ other = None
    /\ RunStart

Next ==
    \/ Precompute
    \/ CloseShort
    \/ EnterShort
    \/ CloseLong
    \/ EnterLong
    \/ Return

Spec == Init /\ [][Next]_vars

\* ------------------------------------- compute_rsi_window called alone
RECURSIVE SeqsUpTo(_, _)
SeqsUpTo(S, len) ==
    IF len = 0 THEN {<<>>} ELSE SeqsOfLen(S, len) \cup SeqsUpTo(S, len - 1)

RsiPrices == {FromInt(1), FromInt(2), FromInt(3)}

InitRsi ==
    /\ tickers = RunTickers
    /\ dataset \in [TickerSet -> SeqsUpTo(RsiPrices, MaxLen)]
    /\ window_size \in 0..(MaxLen + 1)
    /\ tx_fee = Zero /\ interest_rate = Zero /\ weight_per_stock = One
    /\ close_array = None
    /\ rsi_value = None
    /\ other = None
    /\ balance = StartBalance
    /\ cRor = StartCRor
    /\ positions = [k \in TickerSet |-> StartPosition]
    /\ entry_price = [k \in TickerSet |-> None]
    /\ volume = [k \in TickerSet |-> Zero]
    /\ rsi_data = None
    /\ t = 0 /\ ti = 1
    /\ pc = "rsi_window_call"
    /\ result = None
    /\ events = <<>>
    /\ rors = <<>>
    /\ start_pos = StartPosition
    /\ evals = <<>>

CallRsiWindow ==
    /\ pc = "rsi_window_call"
    /\ pc' = "rsi_window_done"
    /\ rsi_data' = compute_rsi_window(dataset, tickers, window_size)
    /\ InputsUnchanged
    /\ UNCHANGED <<balance, cRor, positions, entry_price, volume, t, ti,
                   result, events, rors, start_pos, evals>>

NextRsi == CallRsiWindow

SpecRsi == InitRsi /\ [][NextRsi]_vars

\* -------------------------------------------- compute_rsi called alone
OscPrices == {FromInt(p) : p \in 1..MaxOscPrice}

InitOsc ==
    /\ tickers = RunTickers
    /\ dataset = [k \in TickerSet |-> <<>>]
    /\ window_size = 1
    /\ tx_fee = Zero /\ interest_rate = Zero /\ weight_per_stock = One
    /\ close_array \in SeqsUpTo(OscPrices, MaxSlice)
    /\ rsi_value = None
    /\ other = None
    /\ balance = StartBalance
    /\ cRor = StartCRor
    /\ positions = [k \in TickerSet |-> StartPosition]
    /\ entry_price = [k \in TickerSet |-> None]
    /\ volume = [k \in TickerSet |-> Zero]
    /\ rsi_data = None
    /\ t = 0 /\ ti = 1
    /\ pc = "rsi_call"
    /\ result = None
    /\ events = <<>>
    /\ rors = <<>>
    /\ start_pos = StartPosition
    /\ evals = <<>>

CallRsi ==
    /\ pc = "rsi_call"
    /\ pc' = "rsi_done"
    /\ rsi_value' = compute_rsi(close_array)
    /\ UNCHANGED <<dataset, tickers, window_size, tx_fee, interest_rate,
                   weight_per_stock, close_array, other>>
    /\ UNCHANGED <<balance, cRor, positions, entry_price, volume, rsi_data,
                   t, ti, result, events, rors, start_pos, evals>>

NextOsc == CallRsi

SpecOsc == InitOsc /\ [][NextOsc]_vars

\* ------------------------- run_strategy on series of unequal lengths
SeriesLengths == {1, 2, 3, 4}

InitMismatch ==
    /\ tickers = RunTickers
    /\ dataset \in [TickerSet ->
                       UNION {SeqsOfLen(Prices, len) : len \in SeriesLengths}]
    /\ window_size = 2
    /\ \E c \in Costs : tx_fee = c[1] /\ interest_rate = c[2]
    /\ weight_per_stock \in Weights
    /\ close_array = None
    /\ rsi_value = None
    /\ other = None
    /\ RunStart

SpecMismatch == InitMismatch /\ [][Next]_vars

\* ------------------ run_strategy on prices that are zero or negative
AnyPrices == {FromInt(-1), Zero, FromInt(1), FromInt(2)}

InitZero ==
    /\ tickers = <<"VTI">>
    /\ dataset \in [TickerSet -> SeqsOfLen(AnyPrices, NumDays)]
    /\ window_size = 2
    /\ \E c \in Costs : tx_fee = c[1] /\ interest_rate = c[2]
    /\ weight_per_stock \in Weights
    /\ close_array = None
    /\ rsi_value = None
    /\ other = None
    /\ RunStart

SpecZero == InitZero /\ [][Next]_vars

\* ------------------------------ two calls of run_strategy interleaved
\* Every call of run_strategy binds its arguments and the names of lines
\* 55-63 in a frame of its own.  The variables hold the frame of the call
\* that runs, other the frame of the suspended one; Switch suspends the one
\* and resumes the other, between any two statements.
Frame ==
    [dataset |-> dataset, tickers |-> tickers, window_size |-> window_size,
     tx_fee |-> tx_fee, interest_rate |-> interest_rate,
     weight_per_stock |-> weight_per_stock, balance |-> balance,
     cRor |-> cRor, positions |-> positions, entry_price |-> entry_price,
     volume |-> volume, rsi_data |-> rsi_data, t |-> t, ti |-> ti, pc |-> pc,
     result |-> result, events |-> events, rors |-> rors,
     start_pos |-> start_pos, evals |-> evals]

Resume(f) ==
    /\ dataset' = f.dataset /\ tickers' = f.tickers
    /\ window_size' = f.window_size /\ tx_fee' = f.tx_fee
    /\ interest_rate' = f.interest_rate
    /\ weight_per_stock' = f.weight_per_stock
    /\ cRor' = f.cRor /\ positions' = f.positions
    /\ entry_price' = f.entry_price /\ volume' = f.volume
    /\ rsi_data' = f.rsi_data /\ t' = f.t /\ ti' = f.ti /\ pc' = f.pc
    /\ result' = f.result /\ events' = f.events /\ rors' = f.rors
    /\ start_pos' = f.start_pos /\ evals' = f.evals

\* mutant: balance is a module-level name, one for both calls
Switch_SharedBalance ==
    /\ other # None
    /\ other' = Frame
    /\ Resume(other)
    /\ balance' = balance
    /\ UNCHANGED <<close_array, rsi_value>>

Switch ==
    /\ other # None
    /\ other' = Frame
    /\ Resume(other)
    /\ balance' = other.balance
    /\ UNCHANGED <<close_array, rsi_value>>

\* the frame of a call that has not executed line 62 yet
StartFrame(data, ticks, window, fee, rate, weight) ==
    [dataset |-> data, tickers |-> ticks, window_size |-> window,
     tx_fee |-> fee, interest_rate |-> rate, weight_per_stock |-> weight,
     balance |-> StartBalance, cRor |-> StartCRor,
     positions |-> [k \in DOMAIN data |-> StartPosition],
     entry_price |-> [k \in DOMAIN data |-> None],
     volume |-> [k \in DOMAIN data |-> Zero],
     rsi_data |-> None, t |-> 0, ti |-> 1, pc |-> "precompute",
     result |-> None, events |-> <<>>, rors |-> <<>>,
     start_pos |-> StartPosition, evals |-> <<>>]

TwoTickers == <<"VTI">>
TwoDatasets == [{"VTI"} -> SeqsOfLen(Prices, 4)]

InitTwo ==
    /\ tickers = TwoTickers
    /\ dataset \in TwoDatasets
    /\ window_size = 2
    /\ \E c \in Costs : tx_fee = c[1] /\ interest_rate = c[2]
    /\ weight_per_stock = One
    /\ close_array = None
    /\ rsi_value = None
    /\ other \in {StartFrame(d, TwoTickers, 2, c[1], c[2], One) :
                     d \in TwoDatasets, c \in Costs}
    /\ RunStart

NextTwo ==
    \/ Next
    \/ Switch

SpecTwo == InitTwo /\ [][NextTwo]_vars

\* ------------------------------------------------ reading the history
TickIndex(k) == CHOOSE j \in 1..Len(tickers) : tickers[j] = k

\* the transitions of instrument k on days d1..d2, in the order they fired
EventNames(k, d1, d2) ==
    LET s == SelectSeq(events, LAMBDA ev : ev[2] = k /\ ev[1] >= d1 /\ ev[1] <= d2)
    IN  [i \in 1..Len(s) |-> s[i][3]]

AllEventNames(k) == EventNames(k, 0, NumDays + 1)

\* the evaluation of instrument k for day d has ended
Evaluated(k, d) ==
    /\ rsi_data # None
    /\ d >= window_size /\ d < n
    /\ \/ pc \in {"return", "done"}
       \/ t > d
       \/ t = d /\ ti > TickIndex(k)

RsiAt(k, d) == rsi_data[k][d - window_size + 1]
IsLow(x) == FLt(x, FromInt(LowThreshold))
IsHigh(x) == FGt(x, FromInt(HighThreshold))

\* instrument k is neutral when day d begins, by the transitions before d
NeutralBefore(k, d) ==
    LET before == EventNames(k, 0, d - 1) IN
    \/ before = <<>>
    \/ before[Len(before)] \in {"close_short", "close_long"}

\* --------------------------------------------------------------- C1
\* C1 (as claimed): an instrument that is short when its evaluation for day t
\* begins, with oscillator(t) < 33, is neutral when that evaluation ends.
C1_EndsNeutral ==
    [][(pc = "enter_long" /\ start_pos = "short" /\ IsLow(the_rsi))
          => positions'[tick] = "neutral"]_vars

\* C1 (amended): an instrument that is short when its evaluation for day t
\* begins, with oscillator(t) < 33, is long when that evaluation ends: the
\* close-short takes it to neutral and the open-long of the same evaluation
\* follows it.
C1_EndsLong ==
    [][(pc = "enter_long" /\ start_pos = "short" /\ IsLow(the_rsi))
          => /\ positions[tick] = "neutral"
             /\ positions'[tick] = "long"
             /\ Len(events') >= 2
             /\ events'[Len(events') - 1] = <<t, tick, "close_short">>
             /\ events'[Len(events')] = <<t, tick, "open_long">>]_vars

C1_Witness ==
    /\ Len(events) >= 2
    /\ events[Len(events) - 1][3] = "close_short"
    /\ events[Len(events)] =
          <<events[Len(events) - 1][1], events[Len(events) - 1][2], "open_long">>
    /\ positions[events[Len(events)][2]] = "long"
    /\ Evaluated(events[Len(events)][2], events[Len(events)][1])

\* --------------------------------------------------------------- C2
HighLowHigh(k, d) ==
    /\ Evaluated(k, d + 2)
    /\ d >= window_size
    /\ NeutralBefore(k, d)
    /\ IsHigh(RsiAt(k, d)) /\ IsLow(RsiAt(k, d + 1)) /\ IsHigh(RsiAt(k, d + 2))

\* C2 (as claimed): an instrument neutral before three consecutive days with
\* oscillator > 66, < 33, > 66 fires exactly open-short, close-short,
\* open-short on them.
C2_ShortCloseShort ==
    \A k \in TickerSet : \A d \in 0..NumDays :
        HighLowHigh(k, d) =>
            EventNames(k, d, d + 2) = <<"open_short", "close_short", "open_short">>

\* C2 (amended): it fires exactly open-short on the first day, close-short and
\* then open-long on the second, close-long on the third.
C2_ShortCloseLongClose ==
    \A k \in TickerSet : \A d \in 0..NumDays :
        HighLowHigh(k, d) =>
            /\ EventNames(k, d, d) = <<"open_short">>
            /\ EventNames(k, d + 1, d + 1) = <<"close_short", "open_long">>
            /\ EventNames(k, d + 2, d + 2) = <<"close_long">>

C2_Witness ==
    \E k \in TickerSet : \E d \in 0..NumDays :
        /\ HighLowHigh(k, d)
        /\ EventNames(k, d, d + 2) =
              <<"open_short", "close_short", "open_long", "close_long">>

\* --------------------------------------------------------------- C3
LastEventIs(k, name) ==
    LET s == AllEventNames(k) IN s # <<>> /\ s[Len(s)] = name

\* C3: every instrument is in exactly one of the states neutral, long, short,
\* starts neutral, and is short (long) exactly when its last transition was an
\* open-short (open-long).
C3_OneState ==
    \A k \in TickerSet :
        /\ positions[k] \in {"neutral", "long", "short"}
        /\ pc = "precompute" => positions[k] = "neutral"
        /\ positions[k] = "short" <=> LastEventIs(k, "open_short")
        /\ positions[k] = "long" <=> LastEventIs(k, "open_long")

C3_Witness ==
    /\ positions[tickers[1]] = "long"
    /\ positions[tickers[2]] = "short"
    /\ LastEventIs(tickers[1], "open_long")
    /\ "close_short" \in {AllEventNames(tickers[1])[i] :
                              i \in 1..Len(AllEventNames(tickers[1]))}

\* --------------------------------------------------------------- C4
ClosesNow ==
    \/ pc = "close_short" /\ CloseShortCond
    \/ pc = "close_long" /\ CloseLongCond

OpensNow ==
    \/ pc = "enter_short" /\ EnterShortCond
    \/ pc = "enter_long" /\ EnterLongCond

\* C4: a step that is not a close-short or close-long transition (an open, a
\* branch that does not fire, the precomputation, the return) leaves the
\* balance unchanged.
C4_BalanceOnlyAtClose ==
    [][~ClosesNow => balance' = balance]_vars

C4_Witness ==
    /\ pc = "done"
    /\ balance # FromInt(InitialBalance)
    /\ \E k \in TickerSet : positions[k] # "neutral"
    /\ \E k \in TickerSet : \E d \in 0..NumDays :
          Evaluated(k, d) /\ EventNames(k, d, d) = <<>>

\* --------------------------------------------------------------- C5
IsConstant(s) == \A i \in 1..Len(s) : s[i] = s[1]

AllEvents == {events[i][3] : i \in 1..Len(events)}

\* C5: when every instrument's price series is constant, every oscillator
\* value is 100.0, no instrument is ever long, no close fires, and the run
\* returns the starting balance 100000.0 and final_return 0.
C5_FlatPrices ==
    (\A k \in TickerSet : IsConstant(dataset[k])) =>
        /\ rsi_data # None =>
              \A k \in TickerSet : \A i \in 1..Len(rsi_data[k]) :
                  rsi_data[k][i] = FromInt(100)
        /\ \A k \in TickerSet : positions[k] # "long"
        /\ AllEvents \subseteq {"open_short"}
        /\ pc = "done" => result = <<FromInt(100000), Zero>>

C5_Witness ==
    /\ \A k \in TickerSet : IsConstant(dataset[k])
    /\ pc = "done"
    /\ \A k \in TickerSet : positions[k] = "short"
    /\ result = <<FromInt(100000), Zero>>

\* --------------------------------------------------------------- C6
\* C6: every open-short and open-long sets the instrument's volume to
\* (balance * allocation_fraction) / current_price, with the balance of that
\* instant: the one left by every close before it, those of earlier
\* instruments on the same day and of the same evaluation included.
C6_VolumeFromCurrentBalance ==
    [][OpensNow =>
          /\ volume'[tick] =
                FDiv(FMul(balance, weight_per_stock), dataset[tick][t + 1])
          /\ entry_price'[tick] = dataset[tick][t + 1]
          /\ balance' = balance]_vars

\* the last three transitions: the first instrument closes its short and opens
\* a long, then the second instrument opens, all on one day, and both volumes
\* come from the balance the close left
C6_Witness ==
    /\ Len(events) >= 3
    /\ LET l  == Len(events)
           d  == events[l][1]
           k1 == tickers[1]
           k2 == tickers[2]
       IN  /\ events[l - 2] = <<d, k1, "close_short">>
           /\ events[l - 1] = <<d, k1, "open_long">>
           /\ events[l][2] = k2
           /\ events[l][3] \in {"open_short", "open_long"}
           /\ balance # FromInt(InitialBalance)
           /\ volume[k1] = FDiv(FMul(balance, weight_per_stock), dataset[k1][d + 1])
           /\ volume[k2] = FDiv(FMul(balance, weight_per_stock), dataset[k2][d + 1])
           /\ volume[k2] # FDiv(FMul(FromInt(InitialBalance), weight_per_stock),
                                dataset[k2][d + 1])

\* --------------------------------------------------------------- C7
\* the price at which instrument k opened the position that its i-th logged
\* transition closes: the price of the day of k's transition before it
CloseEvents == SelectSeq(events, LAMBDA ev : ev[3] \in {"close_short", "close_long"})

EntryOf(i) ==
    LET k == events[i][2]
        j == CHOOSE j \in 1..(i - 1) :
                 /\ events[j][2] = k
                 /\ \A m \in (j + 1)..(i - 1) : events[m][2] # k
    IN  dataset[k][events[j][1] + 1]

\* the per-trade return of the close logged as events[i], by the formulas of
\* the transition table
TradeReturn(i) ==
    LET entry == EntryOf(i)
        price == dataset[events[i][2]][events[i][1] + 1]
    IN  IF events[i][3] = "close_short"
        THEN FSub(FSub(FDiv(FMul(entry, FSub(One, tx_fee)),
                            FMul(price, FAdd(One, tx_fee))), One), interest_rate)
        ELSE FSub(FDiv(FMul(price, FSub(One, tx_fee)),
                       FMul(entry, FAdd(One, tx_fee))), One)

\* 1.0 multiplied by (1 + return) of the closes among events[1..i], in order
RECURSIVE Compounded(_)
Compounded(i) ==
    IF i = 0 THEN One
    ELSE IF events[i][3] \in {"close_short", "close_long"}
    THEN FMul(Compounded(i - 1), FAdd(One, TradeReturn(i)))
    ELSE Compounded(i - 1)

\* C7: cumulative_return_factor is 1.0 multiplied, in the order the closes
\* fired, by (1 + per-trade return) of each close and changed by nothing else;
\* the run returns final_return = cumulative_return_factor - 1, which is 0 when
\* no close fired.
C7_CompoundedReturns ==
    /\ cRor = Compounded(Len(events))
    /\ \A i \in 1..(Len(events) - 1) :
          \/ events[i][1] < events[i + 1][1]
          \/ /\ events[i][1] = events[i + 1][1]
             /\ TickIndex(events[i][2]) <= TickIndex(events[i + 1][2])
    /\ Len(rors) = Len(CloseEvents)
    /\ pc = "precompute" => cRor = One
    /\ pc = "done" =>
          /\ result[2] = FSub(cRor, One)
          /\ CloseEvents = <<>> => result[2] = Zero

C7_Witness ==
    /\ pc = "done"
    /\ Len(CloseEvents) >= 3
    /\ CloseEvents[1][1] = CloseEvents[2][1]
    /\ result[2] # Zero
    /\ cRor # FAdd(One, FAdd(FAdd(rors[1], rors[2]), rors[3]))

\* --------------------------------------------------------------- C8
SamePriceLongClose ==
    /\ pc = "close_long" /\ CloseLongCond
    /\ tx_fee = Zero /\ interest_rate = Zero
    /\ dataset[tick][t + 1] = entry_price[tick]

\* C8 (as claimed): with fee = 0 and financing_rate = 0, closing a long at its
\* entry price leaves balance and cumulative_return_factor unchanged.
C8_RoundTripUnchanged ==
    [][SamePriceLongClose => (balance' = balance /\ cRor' = cRor)]_vars

\* |a - b| <= max(|b|, |x|) * 2^(2 - FloatBits)
WithinRounding(a, b, x) ==
    LET e  == Min(Min(a[2], b[2]), x[2])
        mb == Abs(b[1]) * Pow2(b[2] - e)
        mx == Abs(x[1]) * Pow2(x[2] - e)
        da == Abs(a[1] * Pow2(a[2] - e) - b[1] * Pow2(b[2] - e))
    IN  da * Pow2(FloatBits - 2) <= (IF mb >= mx THEN mb ELSE mx)

\* C8 (amended): with fee = 0 and financing_rate = 0, closing a long at its
\* entry price has per-trade return exactly 0 and leaves
\* cumulative_return_factor unchanged; the balance becomes
\* (balance + x) - x with x = price * volume, which is the old balance up to
\* the rounding of the two floating-point operations: it differs from it by at
\* most max(|balance|, |x|) * 2^(2 - p), p the width of the significand.
C8_RoundTripReturnZero ==
    [][SamePriceLongClose =>
          /\ rors' = Append(rors, Zero)
          /\ cRor' = cRor
          /\ LET x == FMul(entry_price[tick], volume[tick]) IN
             /\ balance' = FSub(FAdd(balance, x), x)
             /\ WithinRounding(balance', balance, x)]_vars

C8_Witness ==
    /\ pc = "enter_long"
    /\ events # <<>>
    /\ events[Len(events)] = <<t, tick, "close_long">>
    /\ tx_fee = Zero /\ interest_rate = Zero
    /\ dataset[tick][t + 1] = entry_price[tick]
    /\ rors[Len(rors)] = Zero
    /\ balance # FromInt(InitialBalance)

\* --------------------------------------------------------------- C9
\* the oscillator of a slice of integer prices as the specification defines
\* it: up the sum of the non-negative differences, down the sum of the
\* absolute negative differences, both exact
IntOf(x) == x[1] * Pow2(x[2])

RECURSIVE UpSum(_, _)
UpSum(s, i) ==
    IF i < 2 THEN 0
    ELSE LET d == IntOf(s[i]) - IntOf(s[i - 1]) IN
         UpSum(s, i - 1) + (IF d >= 0 THEN d ELSE 0)

RECURSIVE DownSum(_, _)
DownSum(s, i) ==
    IF i < 2 THEN 0
    ELSE LET d == IntOf(s[i]) - IntOf(s[i - 1]) IN
         DownSum(s, i - 1) + (IF d < 0 THEN -d ELSE 0)

OscillatorOf(s) ==
    LET up   == UpSum(s, Len(s))
        down == DownSum(s, Len(s))
    IN  IF down = 0 THEN FromInt(100)
        ELSE FSub(FromInt(100),
                  FDiv(FromInt(100),
                       FAdd(One, FDiv(FromInt(up), FromInt(down)))))

\* C9: for every instrument with N prices and every window with
\* 1 <= window <= N the series returned has N - window + 1 values, the k-th
\* (from 0) the oscillator of the prices at indices k .. k + window - 1.
C9_WindowSeries ==
    pc = "rsi_window_done" =>
        \A k \in TickerSet :
            LET N == Len(dataset[k]) IN
            (1 <= window_size /\ window_size <= N) =>
                /\ Len(rsi_data[k]) = N - window_size + 1
                /\ \A j \in 0..(N - window_size) :
                      rsi_data[k][j + 1] =
                          OscillatorOf([i \in 1..window_size |-> dataset[k][j + i]])

C9_Witness ==
    /\ pc = "rsi_window_done"
    /\ window_size = 2
    /\ Len(dataset[tickers[1]]) = 3
    /\ Len(dataset[tickers[2]]) = 2
    /\ Len(rsi_data[tickers[1]]) = 2
    /\ Len(rsi_data[tickers[2]]) = 1
    /\ rsi_data[tickers[1]][1] # rsi_data[tickers[1]][2]

\* -------------------------------------------------------------- C10
\* C10: the result of compute_rsi lies in [0, 100] for every slice, the empty
\* one and those of one price included.
FLe(a, b) == Diff(a, b) <= 0

C10_InRange ==
    pc = "rsi_done" =>
        /\ FGe(rsi_value, Zero)
        /\ FLe(rsi_value, FromInt(100))

C10_Witness ==
    /\ pc = "rsi_done"
    /\ Len(close_array) = 3
    /\ FGt(rsi_value, Zero)
    /\ FLt(rsi_value, FromInt(100))

\* -------------------------------------------------------------- C11
NoDecrease(s) == \A i \in 2..Len(s) : IntOf(s[i]) >= IntOf(s[i - 1])

\* C11: compute_rsi returns exactly 100.0 for every slice without a
\* day-over-day decrease (rising, constant, of one price, empty), and
\* 100 - 100 / (1 + up / down) for every slice with a decrease, up the sum of
\* the non-negative differences and down the sum of the absolute negative ones.
C11_FlatOrFormula ==
    pc = "rsi_done" =>
        IF NoDecrease(close_array)
        THEN rsi_value = FromInt(100)
        ELSE rsi_value =
                 FSub(FromInt(100),
                      FDiv(FromInt(100),
                           FAdd(One, FDiv(FromInt(UpSum(close_array, Len(close_array))),
                                          FromInt(DownSum(close_array, Len(close_array)))))))

C11_Witness ==
    /\ pc = "rsi_done"
    /\ close_array = <<FromInt(2), FromInt(1), FromInt(3), FromInt(3)>>
    /\ rsi_value = FSub(FromInt(100), FDiv(FromInt(100), FromInt(3)))
    /\ rsi_value # FromInt(100)

\* -------------------------------------------------------------- C12
\* C12: compute_rsi_window fails whenever window < 1 or window > N for the N
\* prices of an instrument, and then produces no indicator value for any
\* instrument: it returns only for a window every series admits.
C12_InvalidWindowFails ==
    pc = "rsi_window_done" =>
        \A k \in TickerSet :
            1 <= window_size /\ window_size <= Len(dataset[k])

\* -------------------------------------------------------------- C13
UnequalLengths ==
    \E k1, k2 \in TickerSet : Len(dataset[k1]) # Len(dataset[k2])

\* C13: when the price series do not all have the same length, run_strategy
\* fails at entry: no simulated day is evaluated, no position, balance or
\* cRor changes, and nothing is returned.
C13_MismatchFailsAtEntry ==
    UnequalLengths =>
        /\ evals = <<>>
        /\ events = <<>>
        /\ \A k \in TickerSet : positions[k] = "neutral"
        /\ balance = FromInt(InitialBalance)
        /\ cRor = One
        /\ pc # "done"

\* -------------------------------------------------------------- C14
\* the branch about to fire divides by the current price
DividesByPriceNow ==
    \/ pc = "close_short" /\ CloseShortCond
    \/ pc = "enter_short" /\ EnterShortCond
    \/ pc = "enter_long" /\ EnterLongCond

\* C14: run_strategy fails whenever the current price a transition divides by
\* (entry sizing at an open, the return ratio at a close-short) is 0, and no
\* transition that divides by a zero or negative price completes.
C14_NonPositivePriceFails ==
    [][(DividesByPriceNow /\ ~FGt(current_price, Zero))
           => pc' = "ZeroDivisionError"]_vars

\* -------------------------------------------------------------- C15
\* run_strategy alone, as a function of its arguments: st is the record of
\* balance, cRor, positions, entry_price and volume; the evaluation of
\* instrument k at oscillator r and price p applies the four tests in turn
EvalAlone(st, k, r, p, fee, rate, w) ==
    LET s1 == IF IsLow(r) /\ st.positions[k] = "short"
              THEN [st EXCEPT
                       !.positions[k] = "neutral",
                       !.balance = CloseShortBalance(st.balance, st.entry_price[k],
                                       st.volume[k], p, fee, rate),
                       !.cRor = FMul(st.cRor, FAdd(One,
                                    CloseShortRor(st.entry_price[k], p, fee, rate)))]
              ELSE st
        s2 == IF IsHigh(r) /\ s1.positions[k] = "neutral"
              THEN [s1 EXCEPT !.positions[k] = "short", !.entry_price[k] = p,
                              !.volume[k] = FDiv(FMul(s1.balance, w), p)]
              ELSE s1
        s3 == IF IsHigh(r) /\ s2.positions[k] = "long"
              THEN [s2 EXCEPT
                       !.positions[k] = "neutral",
                       !.balance = CloseLongBalance(s2.balance, s2.entry_price[k],
                                       s2.volume[k], p, fee),
                       !.cRor = FMul(s2.cRor, FAdd(One,
                                    CloseLongRor(s2.entry_price[k], p, fee)))]
              ELSE s2
    IN  IF IsLow(r) /\ s3.positions[k] = "neutral"
        THEN [s3 EXCEPT !.positions[k] = "long", !.entry_price[k] = p,
                        !.volume[k] = FDiv(FMul(s3.balance, w), p)]
        ELSE s3

\* the evaluations from day d, instrument number j on
RECURSIVE RunAloneFrom(_, _, _)
RunAloneFrom(f, d, j) ==
    IF d >= Len(f.dataset[f.tickers[1]]) THEN f
    ELSE IF j > Len(f.tickers) THEN RunAloneFrom(f, d + 1, 1)
    ELSE LET k == f.tickers[j] IN
         RunAloneFrom(EvalAlone(f, k, f.rsi_data[k][d - f.window_size + 1],
                          f.dataset[k][d + 1], f.tx_fee, f.interest_rate,
                          f.weight_per_stock),
                      d, j + 1)

\* the result of the call whose frame is f, were it the only call
RunAlone(f) ==
    LET start == StartFrame(f.dataset, f.tickers, f.window_size, f.tx_fee,
                            f.interest_rate, f.weight_per_stock)
        end == RunAloneFrom(
                   [start EXCEPT !.rsi_data = compute_rsi_window(f.dataset,
                                                  f.tickers, f.window_size)],
                   f.window_size, 1)
    IN  <<end.balance, FSub(end.cRor, One)>>

\* C15: of two calls of run_strategy whose statements interleave in any
\* order, each works on its own positions, entry prices, volumes, balance and
\* cRor: each returns what it returns when it is the only call.
C15_Isolated ==
    /\ pc = "done" => result = RunAlone(Frame)
    /\ (other # None /\ other.pc = "done") => other.result = RunAlone(other)

\* one call has returned while the other, begun before, is suspended in the
\* middle of an evaluation, each with a balance of its own
C15_Witness ==
    /\ pc = "done"
    /\ result[1] # FromInt(InitialBalance)
    /\ other # None /\ other.pc = "enter_long"
    /\ other.events # <<>>
    /\ other.balance # FromInt(InitialBalance)
    /\ other.balance # balance

\* -------------------------------------------------------------- C16
Days == window_size..(n - 1)

ClosedLongOn(k, d) ==
    \E i \in 1..Len(events) : events[i] = <<d, k, "close_long">>

\* C16 as stated: on a day on which the long of an instrument is closed, the
\* same evaluation also opens a short for it (the oscillator is above 66 and
\* the instrument is neutral after the close).
C16_CloseLongThenShort ==
    \A k \in TickerSet : \A d \in Days :
        (Evaluated(k, d) /\ ClosedLongOn(k, d)) =>
            EventNames(k, d, d) = <<"close_long", "open_short">>

\* C16, amended: the test that opens a short (line 83) is made before the one
\* that closes a long (line 89), so on a day on which the long of an
\* instrument is closed that close is its only transition: no short is
\* opened, the instrument ends the day's evaluation neutral.
C16_CloseLongEndsNeutral ==
    \A k \in TickerSet : \A d \in Days :
        ClosedLongOn(k, d) =>
            /\ EventNames(k, d, d) = <<"close_long">>
            /\ (t = d /\ tick = k /\ pc = "enter_long") => positions[k] = "neutral"
            /\ (Evaluated(k, d) /\ AllEventNames(k)[Len(AllEventNames(k))] = "close_long")
                   => positions[k] = "neutral"

C16_Witness ==
    /\ pc = "close_short"
    /\ t = 4 /\ ti = 2
    /\ ClosedLongOn(tickers[1], 4)
    /\ IsHigh(RsiAt(tickers[1], 4))
    /\ positions[tickers[1]] = "neutral"
    /\ EventNames(tickers[1], 4, 4) = <<"close_long">>

\* -------------------------------------------------------------- C17
\* the number of evaluations of a run, and the i-th of them: day by day from
\* window_size to n - 1, the instruments of a day in the order of tickers
TotalEvals == (n - window_size) * Len(tickers)

ExpectedEval(i) ==
    <<window_size + ((i - 1) \div Len(tickers)),
      tickers[((i - 1) % Len(tickers)) + 1]>>

EvalsInOrder(ev) ==
    /\ Len(ev) <= TotalEvals
    /\ \A i \in 1..Len(ev) : ev[i] = ExpectedEval(i)

BranchOf(p) ==
    CASE p = "close_short" -> 1
      [] p = "enter_short" -> 2
      [] p = "close_long"  -> 3
      [] p = "enter_long"  -> 4
      [] OTHER -> 0

\* the statements executed so far, counted in tests
Progress(ev, p) ==
    IF p \in {"return", "done"} THEN 4 * Len(ev) + (IF p = "done" THEN 1 ELSE 0)
    ELSE IF p = "precompute" THEN -1
    ELSE 4 * (Len(ev) - (IF p = "close_short" THEN 0 ELSE 1)) + BranchOf(p) - 1

\* the only transition the test at p can fire
TransitionOf(p) ==
    CASE p = "close_short" -> "close_short"
      [] p = "enter_short" -> "open_short"
      [] p = "close_long"  -> "close_long"
      [] p = "enter_long"  -> "open_long"
      [] OTHER -> "none"

\* C17: run_strategy evaluates every pair of a day t in window_size..n-1 and
\* an instrument exactly once, day by day and within a day in the order of
\* tickers; each evaluation makes the four tests in the order close-short,
\* open-short, close-long, open-long, each able to fire its own transition
\* only; the loops end after (n - window_size) * |tickers| evaluations.
C17_EvaluationOrder ==
    [][/\ EvalsInOrder(evals')
       /\ Progress(evals', pc') = Progress(evals, pc) + 1
       /\ BranchOf(pc) \in 1..3 => BranchOf(pc') = BranchOf(pc) + 1
       /\ BranchOf(pc) = 4 => pc' \in {"close_short", "return"}
       /\ BranchOf(pc') = 1 => <<t', tickers[ti']>> = ExpectedEval(Len(evals') + 1)
       /\ BranchOf(pc') > 1 => <<t', tickers[ti']>> = evals'[Len(evals')]
       /\ pc' \in {"return", "done"} => Len(evals') = TotalEvals
       /\ events' \in {events, Append(events, <<t, tick, TransitionOf(pc)>>)}
      ]_vars

C17_Witness ==
    /\ pc = "done"
    /\ window_size = 2
    /\ evals = <<<<2, "VTI">>, <<2, "QQQ">>, <<3, "VTI">>, <<3, "QQQ">>,
                 <<4, "VTI">>, <<4, "QQQ">>>>
    /\ Len(events) >= 4

\* -------------------------------------------------------------- C18
\* the latest transition of instrument k so far, None if it had none
LastEventOf(k) ==
    LET s == SelectSeq(events, LAMBDA ev : ev[2] = k)
    IN  IF s = <<>> THEN None ELSE s[Len(s)]

\* C18: entry_price[k] and volume[k] change only in a step that opens a
\* position of k itself, which sets them from the price of that day; every
\* other step, of k or of another instrument, a close included, leaves them
\* as they are.  A close happens only while k is long or short and reads the
\* entry price its latest open has set, never an unset one.
C18_EntryWrittenAtOpenOnly ==
    [][/\ \A k \in TickerSet :
              (entry_price'[k] # entry_price[k] \/ volume'[k] # volume[k])
                  => /\ OpensNow
                     /\ k = tick
                     /\ entry_price'[k] = current_price
                     /\ positions[k] = "neutral"
                     /\ positions'[k] \in {"long", "short"}
       /\ ClosesNow =>
              /\ positions[tick] \in {"long", "short"}
              /\ entry_price[tick] # None
              /\ LastEventOf(tick) # None
              /\ LastEventOf(tick)[3] \in {"open_long", "open_short"}
              /\ entry_price[tick] = dataset[tick][LastEventOf(tick)[1] + 1]
              /\ entry_price' = entry_price
              /\ volume' = volume
      ]_vars

C18_Witness ==
    /\ pc = "enter_long"
    /\ tick = tickers[2]
    /\ LastEventOf(tick) = <<t, tick, "close_long">>
    /\ positions[tick] = "neutral"
    /\ entry_price[tick] # None
    /\ entry_price[tick] # current_price
    /\ positions[tickers[1]] = "short"
    /\ entry_price[tickers[1]] # entry_price[tick]

\* -------------------------------------------------------------- C19
\* C19 as stated: with positive prices, tx_fee >= 0, interest_rate >= 0 and
\* weight_per_stock in (0, 1] the balance is positive at every open, and
\* every long or short position has volume > 0 and entry_price > 0.
C19_PositiveAtOpen ==
    /\ OpensNow => FGt(balance, Zero)
    /\ \A k \in TickerSet :
           positions[k] \in {"long", "short"} =>
               /\ FGt(volume[k], Zero)
               /\ FGt(entry_price[k], Zero)

\* C19, amended: every open sets a positive entry_price, the price of the
\* day, and a volume of the sign of the balance at that moment: positive for
\* a positive balance, and zero or negative when a losing close has left the
\* balance zero or negative.  Before the first close the balance is the
\* positive starting balance.
C19_VolumeFollowsBalance ==
    [][OpensNow =>
           /\ entry_price'[tick] = current_price
           /\ FGt(entry_price'[tick], Zero)
           /\ FGt(balance, Zero) => FGt(volume'[tick], Zero)
           /\ balance = Zero => volume'[tick] = Zero
           /\ FLt(balance, Zero) => FLt(volume'[tick], Zero)
           /\ rors = <<>> => FGt(balance, Zero)
      ]_vars

C19_Witness ==
    /\ pc = "close_short"
    /\ \E k \in TickerSet :
           /\ LastEventOf(k) # None
           /\ LastEventOf(k)[3] = "open_long"
           /\ positions[k] = "long"
           /\ FLt(balance, Zero)
           /\ FLt(volume[k], Zero)
           /\ FGt(entry_price[k], Zero)

\* -------------------------------------------------------------- C20
Evaluating == pc \in {"close_short", "enter_short", "close_long", "enter_long"}

\* C20: the oscillator run_strategy tests on day t is the one of the prices
\* of days t - window_size .. t - 1, not of the price of day t it trades at
\* nor of a later one; the index it reads lies in 0 .. n - window_size - 1,
\* within the indicator series, whose last value (index n - window_size) is
\* never read.
C20_NoLookahead ==
    Evaluating =>
        /\ 0 <= rsi_index
        /\ rsi_index <= n - window_size - 1
        /\ rsi_index < Len(rsi_data[tick])
        /\ Len(rsi_data[tick]) = n - window_size + 1
        /\ the_rsi = OscillatorOf([i \in 1..window_size |->
                                      dataset[tick][t - window_size + i]])

C20_Witness ==
    /\ pc = "close_short"
    /\ t = n - 1
    /\ rsi_index = n - window_size - 1
    /\ the_rsi # rsi_data[tick][n - window_size + 1]
    /\ the_rsi # rsi_data[tick][1]
    /\ dataset[tick][t] # current_price

====
